---- MODULE Spec2Model ----
(***************************************************************************)
(* RollingBuffer<S, T>: a fixed-capacity ring buffer with a checked        *)
(* (write / read) and an unchecked (write_unchecked / read_unchecked)      *)
(* interface, modelled from src/src/lib.rs.                                *)
(***************************************************************************)
EXTENDS Integers, Sequences, FiniteSets, TLC

\* ---------------------------------------------------------------- bounds
MaxS == 3
MaxVal == 2
MaxOps == 5
MaxCheckedOps == 7
MaxUncheckedOps == 8
MaxCycles == 4
MaxIter == 6

Sizes == 1..MaxS
Values == 1..MaxVal
\* the fill value handed to RollingBuffer::new in every test
Default == 0

VARIABLES
    S,           \* the const generic parameter S, fixed at construction
    data,        \* RollingBuffer.data : [T; S]
    write_head,  \* RollingBuffer.write_head
    read_head,   \* RollingBuffer.read_head
    hist,        \* the calls made so far and what each returned
    SEL,         \* snake: false while the writer fills, true while the reader drains
    c,           \* snake: the writer's cycle counter
    KILL,        \* test: the flag that stops both threads
    pcW,         \* test: where the producer thread stands
    pcR,         \* test: where the consumer thread stands
    i,           \* test: the producer's next integer
    w_next,      \* test: the local `next` of the producer's write call
    r_ret,       \* test: the Option<&T> the consumer's read call returned
    seen         \* test: the values the consumer got, in the order it got them

bufVars == <<S, data, write_head, read_head>>
snakeVars == <<SEL, c>>
testVars == <<KILL, pcW, pcR, i, w_next, r_ret, seen>>
vars == <<S, data, write_head, read_head, hist, SEL, c,
          KILL, pcW, pcR, i, w_next, r_ret, seen>>

\* ------------------------------------------------------- the buffer type
\* the buffer as one value (self)
self == [data |-> data, write_head |-> write_head, read_head |-> read_head]

\* Option<&T>: None, or Some(reference to the slot with this index)
None == <<>>
Some(idx) == <<idx>>
is_some(o) == Len(o) = 1
unwrap(o) == o[1]

new(size, def) ==
    [data |-> [k \in 0..(size - 1) |-> def], write_head |-> 0, read_head |-> 0]

\* mutant: the wrap test is off by one
increase_head_late_wrap(index) ==
    LET t == index + 1
    IN  IF t = S + 1 THEN 0 ELSE t

increase_head(index) ==
    LET t == index + 1
    IN  IF t = S THEN 0 ELSE t

\* mutant: the unchecked write refuses to catch up with the read cursor
write_unchecked_checks(b, v) ==
    LET next == increase_head(b.write_head)
    IN  [buf |-> IF next = b.read_head
                 THEN b
                 ELSE [b EXCEPT !.data = [b.data EXCEPT ![b.write_head] = v],
                                !.write_head = next]]

\* mutant: the cursor is advanced before the slot is stored
write_unchecked_stores_at_next(b, v) ==
    LET next == increase_head(b.write_head)
    IN  [buf |-> [b EXCEPT !.data = [b.data EXCEPT ![next] = v],
                           !.write_head = next]]

\* mutant: an overtaking write pushes the read cursor on
write_unchecked_drops_oldest(b, v) ==
    LET next == increase_head(b.write_head)
    IN  [buf |-> [b EXCEPT !.data = [b.data EXCEPT ![b.write_head] = v],
                           !.write_head = next,
                           !.read_head = IF next = b.read_head
                                         THEN increase_head(b.read_head)
                                         ELSE b.read_head]]

write_unchecked(b, v) ==
    [buf |-> [b EXCEPT !.data = [b.data EXCEPT ![b.write_head] = v],
                       !.write_head = increase_head(b.write_head)]]

\* mutant: the unchecked read does not test for emptiness
read_unchecked_no_test(b) ==
    [buf |-> [b EXCEPT !.read_head = increase_head(b.read_head)],
     ret |-> Some(b.read_head)]

read_unchecked(b) ==
    IF b.read_head # b.write_head
    THEN [buf |-> [b EXCEPT !.read_head = increase_head(b.read_head)],
          ret |-> Some(b.read_head)]
    ELSE [buf |-> b, ret |-> None]

\* mutant: two slots are kept free instead of one
write_two_sentinels(b, v) ==
    LET next == increase_head(b.write_head)
    IN  IF next = b.read_head \/ increase_head(next) = b.read_head
        THEN [buf |-> b, ret |-> FALSE]
        ELSE [buf |-> [b EXCEPT !.data = [b.data EXCEPT ![b.write_head] = v],
                                !.write_head = next],
              ret |-> TRUE]

\* mutant: the slot is stored before the full test
write_stores_then_rejects(b, v) ==
    LET next == increase_head(b.write_head)
        stored == [b EXCEPT !.data = [b.data EXCEPT ![b.write_head] = v]]
    IN  IF next = b.read_head
        THEN [buf |-> stored, ret |-> FALSE]
        ELSE [buf |-> [stored EXCEPT !.write_head = next], ret |-> TRUE]

\* mutant: the full test compares the write cursor itself
write_full_when_equal(b, v) ==
    LET next == increase_head(b.write_head)
    IN  IF b.write_head = b.read_head
        THEN [buf |-> b, ret |-> FALSE]
        ELSE [buf |-> [b EXCEPT !.data = [b.data EXCEPT ![b.write_head] = v],
                                !.write_head = next],
              ret |-> TRUE]

write(b, v) ==
    LET next == increase_head(b.write_head)
    IN  IF next = b.read_head
        THEN [buf |-> b, ret |-> FALSE]
        ELSE [buf |-> [b EXCEPT !.data = [b.data EXCEPT ![b.write_head] = v],
                                !.write_head = next],
              ret |-> TRUE]

\* mutant: a read takes the value out of the slot
read_clears_slot(b) ==
    IF b.read_head # b.write_head
    THEN LET next == increase_head(b.read_head)
         IN  [buf |-> [b EXCEPT !.read_head = next,
                                !.data = [b.data EXCEPT ![b.read_head] = Default]],
              ret |-> Some(b.read_head)]
    ELSE [buf |-> b, ret |-> None]

\* mutant: the reference is taken after the cursor moved
read_returns_next(b) ==
    IF b.read_head # b.write_head
    THEN LET next == increase_head(b.read_head)
         IN  [buf |-> [b EXCEPT !.read_head = next], ret |-> Some(next)]
    ELSE [buf |-> b, ret |-> None]

\* mutant: the cursor moves even when the buffer is empty
read_advances_when_empty(b) ==
    LET next == increase_head(b.read_head)
    IN  IF b.read_head # b.write_head
        THEN [buf |-> [b EXCEPT !.read_head = next], ret |-> Some(b.read_head)]
        ELSE [buf |-> [b EXCEPT !.read_head = next], ret |-> None]

\* mutant: the empty test looks one slot ahead
read_empty_one_early(b) ==
    LET next == increase_head(b.read_head)
    IN  IF b.read_head # b.write_head /\ next # b.write_head
        THEN [buf |-> [b EXCEPT !.read_head = next], ret |-> Some(b.read_head)]
        ELSE [buf |-> b, ret |-> None]

read(b) ==
    IF b.read_head # b.write_head
    THEN LET next == increase_head(b.read_head)
         IN  [buf |-> [b EXCEPT !.read_head = next], ret |-> Some(b.read_head)]
    ELSE [buf |-> b, ret |-> None]

\* ------------------------------------------------- single-threaded calls
\* One entry of hist: the call, its argument, whether it returned true / Some,
\* the value seen through the returned reference, and the cursors before it.
Call(op, arg, ok, val) ==
    [op |-> op, arg |-> arg, ok |-> ok, val |-> val,
     wh |-> write_head, rh |-> read_head]

SetBuf(b) ==
    /\ data' = b.data
    /\ write_head' = b.write_head
    /\ read_head' = b.read_head
    /\ S' = S

\* the value behind a returned reference, read while the borrow is live
Deref(b, o) == IF is_some(o) THEN b.data[unwrap(o)] ELSE Default

\* RollingBuffer::new(0) for some size S
InitBuf ==
    /\ S \in Sizes
    /\ data = new(S, Default).data
    /\ write_head = new(S, Default).write_head
    /\ read_head = new(S, Default).read_head

\* no snake driver and no threads
NoSnake == SEL = FALSE /\ c = 0
NoThreads ==
    /\ KILL = FALSE
    /\ pcW = "none"
    /\ pcR = "none"
    /\ i = 0
    /\ w_next = 0
    /\ r_ret = None
    /\ seen = <<>>

Init ==
    /\ InitBuf
    /\ hist = <<>>
    /\ NoSnake
    /\ NoThreads

Write ==
    \E v \in Values :
       LET r == write(self, v)
       IN  /\ SetBuf(r.buf)
           /\ hist' = Append(hist, Call("write", v, r.ret, v))
           /\ UNCHANGED <<snakeVars, testVars>>

Read ==
    LET r == read(self)
    IN  /\ SetBuf(r.buf)
        /\ hist' = Append(hist, Call("read", Default, is_some(r.ret),
                                     Deref(r.buf, r.ret)))
        /\ UNCHANGED <<snakeVars, testVars>>

WriteUnchecked ==
    \E v \in Values :
       LET r == write_unchecked(self, v)
       IN  /\ SetBuf(r.buf)
           /\ hist' = Append(hist, Call("write_unchecked", v, TRUE, v))
           /\ UNCHANGED <<snakeVars, testVars>>

ReadUnchecked ==
    LET r == read_unchecked(self)
    IN  /\ SetBuf(r.buf)
        /\ hist' = Append(hist, Call("read_unchecked", Default, is_some(r.ret),
                                     Deref(r.buf, r.ret)))
        /\ UNCHANGED <<snakeVars, testVars>>

\* any single-threaded sequence of calls of the four operations
Next ==
    /\ Len(hist) < MaxOps
    /\ (Write \/ Read \/ WriteUnchecked \/ ReadUnchecked)

Spec == Init /\ [][Next]_vars

\* any single-threaded sequence of calls of the checked pair only
NextChecked ==
    /\ Len(hist) < MaxCheckedOps
    /\ (Write \/ Read)

SpecChecked == Init /\ [][NextChecked]_vars

\* any single-threaded sequence of calls of the unchecked pair only
NextUnchecked ==
    /\ Len(hist) < MaxUncheckedOps
    /\ (WriteUnchecked \/ ReadUnchecked)

SpecUnchecked == Init /\ [][NextUnchecked]_vars

\* ------------------------------------------------------ history helpers
Last(h) == h[Len(h)]

\* -------------------------------------------------------- the snake test
\* The writer fills the buffer until a write is rejected and hands over
\* (SEL); the reader drains it until a read returns None and hands back.
\* hist holds the calls of the current cycle.
CycleOver(h) == h # <<>> /\ Last(h).op = "read" /\ ~Last(h).ok
ThisCycle == IF CycleOver(hist) THEN <<>> ELSE hist

SnakeWrite ==
    /\ ~SEL
    /\ c < MaxCycles
    /\ \E v \in Values :
         LET r == write(self, v)
         IN  /\ SetBuf(r.buf)
             /\ hist' = Append(ThisCycle, Call("write", v, r.ret, v))
             /\ IF r.ret
                THEN UNCHANGED <<SEL, c>>
                ELSE SEL' = TRUE /\ c' = c + 1
    /\ UNCHANGED testVars

SnakeRead ==
    /\ SEL
    /\ LET r == read(self)
       IN  /\ SetBuf(r.buf)
           /\ hist' = Append(hist, Call("read", Default, is_some(r.ret),
                                        Deref(r.buf, r.ret)))
           /\ SEL' = is_some(r.ret)
    /\ UNCHANGED <<c, testVars>>

InitSnake ==
    /\ InitBuf
    /\ hist = <<>>
    /\ SEL = FALSE
    /\ c = 0
    /\ NoThreads

NextSnake == SnakeWrite \/ SnakeRead

SpecSnake == InitSnake /\ [][NextSnake]_vars

\* ------------------------------------------- the producer/consumer test
\* One producer and one consumer thread share the buffer without any lock.
\* Every step makes one access to memory the other thread also touches; a
\* thread's reads of the cursor only it ever writes ride along.
ITER_C == MaxIter

\* producer: `if KILL.load() { break }`
P_Kill ==
    /\ pcW = "p_kill"
    /\ pcW' = IF KILL THEN "p_done" ELSE "w_next"
    /\ UNCHANGED <<bufVars, hist, snakeVars, KILL, pcR, i, w_next, r_ret, seen>>

\* write: `let next = Self::increase_head(self.write_head)`
W_Next ==
    /\ pcW = "w_next"
    /\ w_next' = increase_head(write_head)
    /\ pcW' = "w_full"
    /\ UNCHANGED <<bufVars, hist, snakeVars, KILL, pcR, i, r_ret, seen>>

\* mutant: the producer never finds the buffer full
W_Full_never ==
    /\ pcW = "w_full"
    /\ pcW' = "w_store"
    /\ UNCHANGED <<bufVars, hist, snakeVars, KILL, pcR, i, w_next, r_ret, seen>>

\* write: `if next == self.read_head { return false }`; the caller sleeps
\* and calls write again with the same integer
W_Full ==
    /\ pcW = "w_full"
    /\ pcW' = IF w_next = read_head THEN "w_next" ELSE "w_store"
    /\ UNCHANGED <<bufVars, hist, snakeVars, KILL, pcR, i, w_next, r_ret, seen>>

\* mutant: the cursor is published where the slot should be stored
W_Store_publishes_instead ==
    /\ pcW = "w_store"
    /\ write_head' = w_next
    /\ pcW' = "w_publish"
    /\ UNCHANGED <<S, data, read_head, hist, snakeVars,
                   KILL, pcR, i, w_next, r_ret, seen>>

\* write: `self.data[self.write_head] = data`
W_Store ==
    /\ pcW = "w_store"
    /\ data' = [data EXCEPT ![write_head] = i]
    /\ pcW' = "w_publish"
    /\ UNCHANGED <<S, write_head, read_head, hist, snakeVars,
                   KILL, pcR, i, w_next, r_ret, seen>>

\* write: `self.write_head = next; true`, then the caller's `i += 1`
W_Publish ==
    /\ pcW = "w_publish"
    /\ write_head' = w_next
    /\ i' = i + 1
    /\ pcW' = "p_limit"
    /\ UNCHANGED <<S, data, read_head, hist, snakeVars,
                   KILL, pcR, w_next, r_ret, seen>>

\* producer: `if i >= ITER_C { KILL.store(true) }`
P_Limit ==
    /\ pcW = "p_limit"
    /\ KILL' = (KILL \/ i >= ITER_C)
    /\ pcW' = "p_kill"
    /\ UNCHANGED <<bufVars, hist, snakeVars, pcR, i, w_next, r_ret, seen>>

\* consumer: `if KILL.load() { break }`
C_Kill ==
    /\ pcR = "c_kill"
    /\ pcR' = IF KILL THEN "c_done" ELSE "r_empty"
    /\ UNCHANGED <<bufVars, hist, snakeVars, KILL, pcW, i, w_next, r_ret, seen>>

\* read: `if self.read_head != self.write_head { .. } else { None }`
R_Empty ==
    /\ pcR = "r_empty"
    /\ pcR' = IF read_head # write_head THEN "r_advance" ELSE "c_kill"
    /\ UNCHANGED <<bufVars, hist, snakeVars, KILL, pcW, i, w_next, r_ret, seen>>

\* read: `let ret = Some(&self.data[self.read_head]); self.read_head = next;
\* ret`
R_Advance ==
    /\ pcR = "r_advance"
    /\ r_ret' = Some(read_head)
    /\ read_head' = increase_head(read_head)
    /\ pcR' = "c_seen"
    /\ UNCHANGED <<S, data, write_head, hist, snakeVars,
                   KILL, pcW, i, w_next, seen>>

\* consumer: `if seen.contains(val) { panic!() } else { seen.insert(*val) }`
C_Seen ==
    /\ pcR = "c_seen"
    /\ LET val == data[unwrap(r_ret)]
       IN  /\ seen' = Append(seen, val)
           /\ pcR' = IF \E k \in 1..Len(seen) : seen[k] = val
                     THEN "c_panic" ELSE "c_kill"
    /\ r_ret' = None
    /\ UNCHANGED <<bufVars, hist, snakeVars, KILL, pcW, i, w_next>>

InitTest ==
    /\ InitBuf
    /\ hist = <<>>
    /\ NoSnake
    /\ KILL = FALSE
    /\ pcW = "p_kill"
    /\ pcR = "c_kill"
    /\ i = 0
    /\ w_next = 0
    /\ r_ret = None
    /\ seen = <<>>

Producer == P_Kill \/ W_Next \/ W_Full \/ W_Store \/ W_Publish \/ P_Limit
Consumer == C_Kill \/ R_Empty \/ R_Advance \/ C_Seen

NextTest == Producer \/ Consumer

SpecTest == InitTest /\ [][NextTest]_vars
IsWrite(e) == e.op = "write"
IsRead(e) == e.op = "read"
IsAnyRead(e) == e.op \in {"read", "read_unchecked"}
AcceptedWrite(e) == IsWrite(e) /\ e.ok
SuccessfulRead(e) == IsRead(e) /\ e.ok

\* the arguments of the accepted checked writes of h, in order
RECURSIVE Accepted(_)
Accepted(h) ==
    IF h = <<>> THEN <<>>
    ELSE IF AcceptedWrite(Head(h))
         THEN <<Head(h).arg>> \o Accepted(Tail(h))
         ELSE Accepted(Tail(h))

\* the values returned by the successful checked reads of h, in order
RECURSIVE Observed(_)
Observed(h) ==
    IF h = <<>> THEN <<>>
    ELSE IF SuccessfulRead(Head(h))
         THEN <<Head(h).val>> \o Observed(Tail(h))
         ELSE Observed(Tail(h))

IsPrefix(p, q) == Len(p) <= Len(q) /\ \A k \in 1..Len(p) : p[k] = q[k]

\* accepted writes minus successful reads
Unread(h) == Len(Accepted(h)) - Len(Observed(h))
\* the calls made before the k-th
Before(k) == SubSeq(hist, 1, k - 1)

\* the cursors after the k-th call of hist
WhAfter(k) == IF k = Len(hist) THEN write_head ELSE hist[k + 1].wh
RhAfter(k) == IF k = Len(hist) THEN read_head ELSE hist[k + 1].rh

\* ------------------------------------------------------------------ C1
\* C1 (capacity): on a freshly constructed buffer, as long as only the
\* checked write has been called, the k-th call returned true exactly when
\* k <= S-1; the S-th call and every later one returned false, and for
\* S = 1 no call returned true.
C1_Capacity ==
    (\A k \in 1..Len(hist) : IsWrite(hist[k]))
        => \A k \in 1..Len(hist) : hist[k].ok <=> (k <= S - 1)

\* C1 witness: S = 3, two accepted writes and then two rejected ones.
C1_Witness ==
    /\ S = 3
    /\ Len(hist) = 4
    /\ \A k \in 1..4 : IsWrite(hist[k])
    /\ hist[2].ok /\ ~hist[3].ok /\ ~hist[4].ok

\* ------------------------------------------------------------------ C2
\* C2 (FIFO order): for every single-threaded sequence of checked write and
\* read calls, the values returned by the successful reads are a prefix of
\* the values accepted by the successful writes.
C2_Fifo == IsPrefix(Observed(hist), Accepted(hist))

\* C2 witness: three values were read back, two of them different, after a
\* write had been rejected and the write cursor had wrapped.
C2_Witness ==
    /\ Len(Observed(hist)) >= 3
    /\ Observed(hist)[1] # Observed(hist)[2]
    /\ \E k \in 1..Len(hist) : IsWrite(hist[k]) /\ ~hist[k].ok
    /\ \E k \in 2..Len(hist) : IsWrite(hist[k]) /\ hist[k].ok /\ WhAfter(k) = 0

\* ------------------------------------------------------------------ C3
\* C3 (concurrent producer/consumer safety): with one producer writing
\* 0, 1, 2, ... through the checked write, retrying while it returns false,
\* and one consumer calling the checked read, in every interleaving of the
\* two threads' cursor and slot accesses (each thread's accesses in program
\* order) the values the consumer has got so far are 0, 1, .., n-1 for some
\* n: ascending, none skipped, none twice, and the consumer never panics.
C3_ConsumerSeesPrefix ==
    /\ \A k \in 1..Len(seen) : seen[k] = k - 1
    /\ pcR # "c_panic"

\* C3 witness: size 3; the consumer has got 0 and 1 and holds a reference
\* to slot 2, which it has not looked at yet, while the producer, about to
\* write 5 into that very slot, finds the buffer full.
C3_Witness ==
    /\ S = 3
    /\ seen = <<0, 1>>
    /\ pcR = "c_seen" /\ r_ret = Some(2)
    /\ pcW = "w_full" /\ w_next = read_head /\ write_head = 2
    /\ i = 5

\* ------------------------------------------------------------------ C6
\* C6 (wraparound): in every cycle of the snake test, wherever the cursors
\* stood when it began, the calls are S-1 accepted writes, one rejected
\* write, S-1 successful reads that return the cycle's values in the order
\* written, and one read that returns no value.
C6_Wraparound ==
    /\ Len(hist) <= 2 * S
    /\ \A k \in 1..Len(hist) :
         /\ (k <= S - 1) => AcceptedWrite(hist[k])
         /\ (k = S) => (IsWrite(hist[k]) /\ ~hist[k].ok)
         /\ (S < k /\ k < 2 * S) =>
               (SuccessfulRead(hist[k]) /\ hist[k].val = hist[k - S].arg)
         /\ (k = 2 * S) => (IsRead(hist[k]) /\ ~hist[k].ok)
    /\ SEL <=> (Len(hist) \in S..(2 * S - 1))

\* C6 witness: size 3; the fourth cycle is complete, it began with both
\* cursors at 0 again after they had wrapped twice, and its two values
\* differ.
C6_Witness ==
    /\ S = 3
    /\ c = 4
    /\ CycleOver(hist)
    /\ hist[1].wh = 0 /\ hist[1].rh = 0
    /\ hist[1].arg # hist[2].arg
    /\ write_head = 2 /\ read_head = 2

\* ------------------------------------------------------------------ C4
\* the checked API's full test of the data model: (write_cursor + 1) mod S
\* equals read_cursor
FullCursors(wh, rh) == (wh + 1) % S = rh

\* C4 (rejected write changes nothing): a call of the checked write in a
\* state with (write_head + 1) mod S = read_head returns false and leaves
\* every slot and both cursors as they were, so the state is full again for
\* the next call.
C4_RejectedWriteChangesNothing ==
    [][(/\ FullCursors(write_head, read_head)
        /\ Len(hist') = Len(hist) + 1
        /\ IsWrite(Last(hist')))
       => (/\ ~Last(hist').ok
           /\ data' = data
           /\ write_head' = write_head
           /\ read_head' = read_head
           /\ FullCursors(write_head', read_head'))]_vars

\* C4 witness: a buffer of size 3 filled by two writes, then two rejected
\* writes in a row.
C4_Witness ==
    /\ S = 3
    /\ Len(hist) >= 4
    /\ LET n == Len(hist)
       IN  /\ AcceptedWrite(hist[n - 2])
           /\ IsWrite(hist[n - 1]) /\ ~hist[n - 1].ok
           /\ IsWrite(hist[n]) /\ ~hist[n].ok
           /\ hist[n].arg # hist[n - 1].arg
    /\ FullCursors(write_head, read_head)

\* ------------------------------------------------------------------ C5
\* h ends with: an empty state (cursors equal), then k accepted checked
\* writes, then k + m checked reads
DrainedBy(h, k, m) ==
    /\ Len(h) >= 2 * k + m
    /\ LET base == Len(h) - (2 * k + m)
       IN  /\ IF 2 * k + m = 0
              THEN read_head = write_head
              ELSE h[base + 1].rh = h[base + 1].wh
           /\ \A j \in (base + 1)..(base + k) : AcceptedWrite(h[j])
           /\ \A j \in (base + k + 1)..Len(h) : IsRead(h[j])

Drained(h) == \E k \in 0..(S - 1) : \E m \in 0..Len(h) : DrainedBy(h, k, m)

\* C5 (empty after drain): after k <= S-1 accepted writes that started in an
\* empty state and were followed by k reads (and by any number of further
\* reads), the next read returns no value and changes neither cursor nor
\* any slot.
C5_EmptyAfterDrain ==
    [][(/\ Drained(hist)
        /\ Len(hist') = Len(hist) + 1
        /\ IsRead(Last(hist')))
       => (/\ ~Last(hist').ok
           /\ data' = data
           /\ write_head' = write_head
           /\ read_head' = read_head)]_vars

\* C5 witness: size 3; the buffer was emptied once (cursors at 1), then two
\* writes, two reads that returned them, and a further read that returned
\* no value.
C5_Witness ==
    /\ S = 3
    /\ Len(hist) = 7
    /\ DrainedBy(hist, 2, 1)
    /\ hist[3].wh = 1
    /\ hist[5].ok /\ hist[6].ok
    /\ ~hist[7].ok
    /\ read_head = 0 /\ write_head = 0

\* ------------------------------------------------------------------ C7
OnlyChecked(h) == \A j \in 1..Len(h) : IsWrite(h[j]) \/ IsRead(h[j])

\* the accepted values not yet returned by a read, oldest first
Pending(h) == SubSeq(Accepted(h), Len(Observed(h)) + 1, Len(Accepted(h)))

\* the k-th call is a write_unchecked on a buffer that the checked pair had
\* brought to S-1 unread values
Overtakes(k) ==
    /\ S >= 2
    /\ hist[k].op = "write_unchecked"
    /\ OnlyChecked(Before(k))
    /\ Unread(Before(k)) = S - 1

\* the calls k+1 .. k+j are all reads
ReadsFollow(k, j) ==
    /\ k + j <= Len(hist)
    /\ \A n \in (k + 1)..(k + j) : IsAnyRead(hist[n])

\* C7 as stated (unchecked write discards the oldest element): after a
\* write_unchecked on a buffer holding S-1 unread values, the reads that
\* follow skip the oldest value and return the remaining unread values in
\* the order they were written.
C7_DiscardsOnlyOldest ==
    \A k \in 1..Len(hist) :
       Overtakes(k) =>
          \A j \in 1..(S - 2) :
             ReadsFollow(k, j) =>
                /\ hist[k + j].ok
                /\ hist[k + j].val = Pending(Before(k))[j + 1]

\* C7 as amended: a write_unchecked on a buffer holding S-1 unread values
\* makes write_head equal to read_head, so the buffer reads as empty: the
\* reads that follow return no value, and all S-1 unread values and the
\* value just written are lost, not only the oldest.
C7_OvertakeEmpties ==
    \A k \in 1..Len(hist) :
       Overtakes(k) =>
          /\ WhAfter(k) = RhAfter(k)
          /\ RhAfter(k) = hist[k].rh
          /\ \A j \in 1..(Len(hist) - k) :
                ReadsFollow(k, j) =>
                   /\ ~hist[k + j].ok
                   /\ RhAfter(k + j) = hist[k].rh

\* C7 witness: size 3; two accepted writes, a write_unchecked that catches
\* up with the read cursor, then a read and a read_unchecked that both
\* return no value.
C7_Witness ==
    /\ S = 3
    /\ Len(hist) = 5
    /\ Overtakes(3)
    /\ Pending(Before(3)) = <<1, 2>>
    /\ hist[4].op = "read" /\ ~hist[4].ok
    /\ hist[5].op = "read_unchecked" /\ ~hist[5].ok
    /\ write_head = 0 /\ read_head = 0

\* ------------------------------------------------------------------ C8
AdvancedWrite(e) == e.op = "write_unchecked" \/ AcceptedWrite(e)
AdvancedRead(e) == IsAnyRead(e) /\ e.ok

\* C8 (invariant A): after any sequence of the four operations both cursors
\* lie in [0, S), every call found its cursors in [0, S), and a call that
\* advanced a cursor standing at S-1 left it at 0.
C8_InvariantA ==
    /\ write_head \in 0..(S - 1)
    /\ read_head \in 0..(S - 1)
    /\ \A k \in 1..Len(hist) :
         /\ hist[k].wh \in DOMAIN data
         /\ hist[k].rh \in DOMAIN data
         /\ (AdvancedWrite(hist[k]) /\ hist[k].wh = S - 1) => WhAfter(k) = 0
         /\ (AdvancedRead(hist[k]) /\ hist[k].rh = S - 1) => RhAfter(k) = 0

\* C8 witness: size 3; unchecked writes only, the last of which started at
\* slot 2, wrapped to 0 and so caught up with the read cursor; then one
\* more.
C8_Witness ==
    /\ S = 3
    /\ Len(hist) = 4
    /\ \A k \in 1..4 : hist[k].op = "write_unchecked"
    /\ hist[3].wh = 2 /\ hist[4].wh = 0
    /\ read_head = 0 /\ write_head = 1

\* ------------------------------------------------------------------ C9
\* C9 (invariant C, full): through the checked pair, the number of unread
\* values is (write_head - read_head) mod S and at most S-1; it is S-1
\* exactly when (write_head + 1) mod S = read_head; every call of write
\* returned false exactly when that number was S-1 before the call; and a
\* write that follows a rejected write and one successful read is accepted.
C9_InvariantC ==
    /\ Unread(hist) = (write_head - read_head + S) % S
    /\ Unread(hist) <= S - 1
    /\ (Unread(hist) = S - 1) <=> FullCursors(write_head, read_head)
    /\ \A k \in 1..Len(hist) :
         IsWrite(hist[k]) =>
            /\ ~hist[k].ok <=> (Unread(Before(k)) = S - 1)
            /\ ~hist[k].ok <=> FullCursors(hist[k].wh, hist[k].rh)
    /\ \A k \in 3..Len(hist) :
         (/\ IsWrite(hist[k - 2]) /\ ~hist[k - 2].ok
          /\ SuccessfulRead(hist[k - 1])
          /\ IsWrite(hist[k]))
         => hist[k].ok

\* C9 witness: size 3; a write rejected on the full buffer, one successful
\* read, and the next write accepted, which fills the buffer again with the
\* write cursor wrapped to 0.
C9_Witness ==
    /\ S = 3
    /\ Len(hist) >= 5
    /\ LET n == Len(hist)
       IN  /\ IsWrite(hist[n - 2]) /\ ~hist[n - 2].ok
           /\ SuccessfulRead(hist[n - 1])
           /\ AcceptedWrite(hist[n])
    /\ write_head = 0 /\ read_head = 1
    /\ Unread(hist) = 2

\* ----------------------------------------------------------------- C10
\* C10 (invariant B, empty): through the checked pair, read_head equals
\* write_head exactly when every accepted value has been read; every call
\* of read returned no value exactly when that was so before the call, and
\* a value otherwise.
C10_InvariantB ==
    /\ (read_head = write_head) <=> (Observed(hist) = Accepted(hist))
    /\ \A k \in 1..Len(hist) :
         IsRead(hist[k]) =>
            /\ ~hist[k].ok <=> (Observed(Before(k)) = Accepted(Before(k)))
            /\ ~hist[k].ok <=> (hist[k].rh = hist[k].wh)

\* C10 witness: size 3; after two accepted writes, two reads returned values
\* and a third returned none, with both cursors at 2.
C10_Witness ==
    /\ S = 3
    /\ Len(hist) >= 5
    /\ LET n == Len(hist)
       IN  /\ SuccessfulRead(hist[n - 2])
           /\ SuccessfulRead(hist[n - 1])
           /\ IsRead(hist[n]) /\ ~hist[n].ok
    /\ read_head = 2 /\ write_head = 2
    /\ Len(Accepted(hist)) = 2

\* ----------------------------------------------------------------- C11
\* C11 (read_unchecked is read): in every state, read_unchecked and read
\* return the same result (a reference to the same slot, hence the same
\* value, or no value) and leave the buffer in the same state.
C11_ReadUncheckedIsRead ==
    /\ read_unchecked(self).ret = read(self).ret
    /\ read_unchecked(self).buf = read(self).buf
    /\ Deref(read_unchecked(self).buf, read_unchecked(self).ret)
          = Deref(read(self).buf, read(self).ret)

\* C11 witness: size 3; a non-empty state reached through both kinds of
\* read, with the read cursor on the last slot, so that either read wraps
\* it, and a written value in that slot.
C11_Witness ==
    /\ S = 3
    /\ \E k \in 1..Len(hist) : hist[k].op = "read" /\ hist[k].ok
    /\ \E k \in 1..Len(hist) : hist[k].op = "read_unchecked" /\ hist[k].ok
    /\ read_head = 2 /\ write_head = 0
    /\ data[2] # Default
    /\ is_some(read(self).ret)

\* ----------------------------------------------------------------- C12
IsAnyWrite(e) == e.op \in {"write", "write_unchecked"}

\* C12 (cursor ownership): a call of write or write_unchecked leaves
\* read_head as it was and changes no slot other than the one at the old
\* write_head; a call of read or read_unchecked leaves write_head and every
\* slot as they were.
C12_CursorOwnership ==
    [][(Len(hist') = Len(hist) + 1) =>
         /\ IsAnyWrite(Last(hist')) =>
               /\ read_head' = read_head
               /\ \A k \in DOMAIN data : k # write_head => data'[k] = data[k]
               /\ DOMAIN data' = DOMAIN data
         /\ IsAnyRead(Last(hist')) =>
               /\ write_head' = write_head
               /\ data' = data]_vars

\* C12 witness: size 3; a write_unchecked that caught up with the read
\* cursor and changed slot 2 only, followed by a write that changed slot 0
\* only, followed by a successful read.
C12_Witness ==
    /\ S = 3
    /\ Len(hist) = 5
    /\ hist[3].op = "write_unchecked" /\ hist[3].wh = 2 /\ hist[3].rh = 0
    /\ hist[4].op = "write" /\ hist[4].ok /\ hist[4].wh = 0
    /\ IsAnyRead(hist[5]) /\ hist[5].ok
    /\ data[1] # data[0] /\ data[2] # data[1]

\* ----------------------------------------------------------------- C13
IsWriteUnchecked(e) == e.op = "write_unchecked"

\* the calls base+1 .. base+n are unchecked writes that start in an empty
\* state, and the calls base+n+1 .. base+n+m are reads
Burst(base, n, m) ==
    /\ base + n + m <= Len(hist)
    /\ hist[base + 1].wh = hist[base + 1].rh
    /\ \A k \in (base + 1)..(base + n) : IsWriteUnchecked(hist[k])
    /\ \A k \in (base + n + 1)..(base + n + m) : IsAnyRead(hist[k])

\* C13 (unchecked overwrite loses the oldest values): after n > S-1
\* write_unchecked calls in a row on an empty buffer, the reads that follow
\* return the last (n mod S) values written, in the order written, and then
\* no value; no older value is returned.  Stated of the latest call, every
\* earlier call having been the latest one in an earlier state.
C13_OverwriteKeepsLastNModS ==
    \A n \in S..Len(hist) : \A m \in 1..(Len(hist) - n) :
       LET base == Len(hist) - n - m
           e == Last(hist)
       IN  Burst(base, n, m) =>
              IF m <= n % S
              THEN e.ok /\ e.val = hist[base + n - (n % S) + m].arg
              ELSE ~e.ok

\* C13 witness: size 3; one value written and read, so that both cursors
\* stand at 1; then four unchecked writes, the fourth into the slot of the
\* first with another value; then a read that returns the fourth value and
\* a read that returns none.
C13_Witness ==
    /\ S = 3
    /\ Len(hist) = 8
    /\ IsWriteUnchecked(hist[1]) /\ IsAnyRead(hist[2])
    /\ Burst(2, 4, 2)
    /\ hist[6].arg # hist[3].arg
    /\ hist[7].ok /\ hist[7].val = hist[6].arg
    /\ ~hist[8].ok

\* ----------------------------------------------------------------- C17
\* the last of the first n calls that stored into slot j, or 0 if none did
RECURSIVE LastInto(_, _)
LastInto(j, n) ==
    IF n = 0 THEN 0
    ELSE IF (n - 1) % S = j THEN n ELSE LastInto(j, n - 1)

\* C17 (write_unchecked stores unconditionally): every write_unchecked(v)
\* advanced write_head by one mod S and left read_head alone, and the last
\* one's value is in the slot at its old write_head; after n such calls on
\* a freshly constructed buffer and nothing else, write_head = n mod S,
\* read_head = 0, and slot j holds the argument of the last call i with
\* (i-1) mod S = j, or the constructor's default if there is none.
C17_StoresUnconditionally ==
    /\ \A k \in 1..Len(hist) :
         IsWriteUnchecked(hist[k]) =>
            /\ WhAfter(k) = (hist[k].wh + 1) % S
            /\ RhAfter(k) = hist[k].rh
            /\ (k = Len(hist)) => data[hist[k].wh] = hist[k].arg
    /\ (\A k \in 1..Len(hist) : IsWriteUnchecked(hist[k])) =>
         LET n == Len(hist)
         IN  /\ write_head = n % S
             /\ read_head = 0
             /\ \A j \in 0..(S - 1) :
                   data[j] = IF LastInto(j, n) = 0
                             THEN Default
                             ELSE hist[LastInto(j, n)].arg

\* C17 witness: size 3; five unchecked writes and nothing else: the fourth
\* and fifth replaced the first and second with other values, the write
\* cursor passed the read cursor and stands at 2.
C17_Witness ==
    /\ S = 3
    /\ Len(hist) = 5
    /\ \A k \in 1..5 : IsWriteUnchecked(hist[k])
    /\ hist[4].arg # hist[1].arg /\ hist[5].arg # hist[2].arg
    /\ data = (0 :> hist[4].arg @@ 1 :> hist[5].arg @@ 2 :> hist[3].arg)
    /\ write_head = 2 /\ read_head = 0

\* ----------------------------------------------------------------- C18
IsReadUnchecked(e) == e.op = "read_unchecked"

\* unchecked writes minus successful unchecked reads
RECURSIVE UncheckedUnread(_)
UncheckedUnread(h) ==
    IF h = <<>> THEN 0
    ELSE LET e == Last(h)
             rest == UncheckedUnread(SubSeq(h, 1, Len(h) - 1))
         IN  IF IsWriteUnchecked(e) THEN rest + 1
             ELSE IF IsReadUnchecked(e) /\ e.ok THEN rest - 1
             ELSE rest

\* the number of unread values never exceeded S-1
RECURSIVE NeverOverrun(_)
NeverOverrun(h) ==
    IF h = <<>> THEN TRUE
    ELSE /\ UncheckedUnread(h) <= S - 1
         /\ NeverOverrun(SubSeq(h, 1, Len(h) - 1))

\* the arguments of the unchecked writes of h, in order
RECURSIVE WrittenUnchecked(_)
WrittenUnchecked(h) ==
    IF h = <<>> THEN <<>>
    ELSE IF IsWriteUnchecked(Head(h))
         THEN <<Head(h).arg>> \o WrittenUnchecked(Tail(h))
         ELSE WrittenUnchecked(Tail(h))

\* the values returned by the successful unchecked reads of h, in order
RECURSIVE ObservedUnchecked(_)
ObservedUnchecked(h) ==
    IF h = <<>> THEN <<>>
    ELSE IF IsReadUnchecked(Head(h)) /\ Head(h).ok
         THEN <<Head(h).val>> \o ObservedUnchecked(Tail(h))
         ELSE ObservedUnchecked(Tail(h))

\* the same calls made through the checked pair on a fresh buffer: the
\* buffer they leave, and whether every call returned what hist records
RECURSIVE CheckedReplay(_)
CheckedReplay(h) ==
    IF h = <<>> THEN [buf |-> new(S, Default), same |-> TRUE]
    ELSE LET e == Last(h)
             p == CheckedReplay(SubSeq(h, 1, Len(h) - 1))
         IN  IF IsWriteUnchecked(e)
             THEN LET r == write(p.buf, e.arg)
                  IN  [buf |-> r.buf, same |-> p.same /\ r.ret]
             ELSE LET r == read(p.buf)
                  IN  [buf |-> r.buf,
                       same |-> /\ p.same
                                /\ is_some(r.ret) = e.ok
                                /\ Deref(r.buf, r.ret) = e.val]

\* C18 (unchecked pair agrees with checked pair when not overrun): in a
\* state that is not full, write_unchecked(v) gives the state an accepted
\* write(v) gives; and a sequence of write_unchecked / read_unchecked calls
\* during which the number of unread values never exceeded S-1 returned the
\* written values in FIFO order, returned no value exactly when drained,
\* and went exactly as the same sequence of checked calls goes.
C18_UncheckedAgreesWithChecked ==
    /\ ~FullCursors(write_head, read_head) =>
          \A v \in Values :
             /\ write(self, v).ret
             /\ write_unchecked(self, v).buf = write(self, v).buf
    /\ NeverOverrun(hist) =>
          /\ IsPrefix(ObservedUnchecked(hist), WrittenUnchecked(hist))
          /\ UncheckedUnread(hist) =
                Len(WrittenUnchecked(hist)) - Len(ObservedUnchecked(hist))
          /\ (hist # <<>> /\ IsReadUnchecked(Last(hist))) =>
                (~Last(hist).ok <=>
                    UncheckedUnread(SubSeq(hist, 1, Len(hist) - 1)) = 0)
          /\ CheckedReplay(hist).same
          /\ CheckedReplay(hist).buf = self

\* C18 witness: size 3; eight unchecked calls that never overran the
\* reader: three values read back in order, the write cursor wrapped, and
\* the last read found the buffer drained.
C18_Witness ==
    /\ S = 3
    /\ Len(hist) = 8
    /\ NeverOverrun(hist)
    /\ Len(ObservedUnchecked(hist)) = 3
    /\ ObservedUnchecked(hist)[1] # ObservedUnchecked(hist)[2]
    /\ \E k \in 1..7 : IsWriteUnchecked(hist[k]) /\ hist[k].wh = 2 /\ hist[k].rh = 1
    /\ IsReadUnchecked(hist[8]) /\ ~hist[8].ok

\* ----------------------------------------------------------------- C14
\* Both threads are scheduled again and again: neither is starved.
SpecTestFair == SpecTest /\ WF_vars(Producer) /\ WF_vars(Consumer)

\* With at least two slots every retried write eventually succeeds and the
\* producer finishes, whatever the fair schedule.
ProducerFinishes == (S >= 2) => <>(pcW = "p_done" /\ i = ITER_C)

\* C14 (concurrent delivery): for S >= 2, once the producer has written
\* every integer and both threads have come to rest, the consumer has
\* observed every integer 0..ITER_C-1.  Nothing happens after both threads
\* have stopped, so an integer not observed by then is never observed.
C14_AllObserved ==
    (S >= 2 /\ pcW = "p_done" /\ pcR = "c_done") => Len(seen) = ITER_C

\* The run C14 fails on: the producer is done, the consumer has seen KILL
\* and stopped, and the last integers written are still unread in the ring.
C14_Stranded ==
    /\ S = 3
    /\ pcW = "p_done" /\ pcR = "c_done"
    /\ i = ITER_C
    /\ Len(seen) = ITER_C - 2
    /\ read_head # write_head

\* ----------------------------------------------------------------- C15
\* the square [0,S) x [0,S) of <<read cursor, write cursor>> pairs
Square == (0..(S - 1)) \X (0..(S - 1))

Cursors(b) == <<b.read_head, b.write_head>>

\* a buffer standing at the pair p
At(p) == [new(S, Default) EXCEPT !.read_head = p[1], !.write_head = p[2]]

\* the pairs one checked call leads to from the pairs of P
AfterOneCall(P) ==
    P \cup {Cursors(read(At(p)).buf) : p \in P}
      \cup {Cursors(write(At(p), v).buf) : p \in P, v \in Values}

\* the pairs some sequence of checked calls leads to from the pairs of P
RECURSIVE Closure(_)
Closure(P) ==
    LET Q == AfterOneCall(P)
    IN  IF Q = P THEN P ELSE Closure(Q)

FromNew == Closure({Cursors(new(S, Default))})

\* C15 (reachable configurations): the cursor pairs that sequences of
\* checked write and read calls reach from a fresh buffer are exactly the
\* pairs of [0,S) x [0,S) (computed once, for the fresh buffer of each
\* size).  The pair of every state of a run is one of them, and where a
\* call leads depends on the cursors alone, so following the calls pair by
\* pair finds every pair that a run can reach.
C15_ReachableIsSquare ==
    /\ (hist = <<>>) => (self = new(S, Default) /\ FromNew = Square)
    /\ Cursors(self) \in Square
    /\ Cursors(read(self).buf) = Cursors(read(At(Cursors(self))).buf)
    /\ \A v \in Values :
          Cursors(write(self, v).buf) = Cursors(write(At(Cursors(self)), v).buf)

\* C15 witness: size 3; six calls have taken both cursors past the end of
\* the array and left the read cursor on the last slot, ahead of the write
\* cursor.
C15_Witness ==
    /\ S = 3
    /\ Len(hist) = 6
    /\ \A k \in 1..6 : hist[k].ok
    /\ read_head = 2 /\ write_head = 1
    /\ Cardinality(FromNew) = 9

\* ----------------------------------------------------------------- C16
\* C16 as stated (read cursor first): a checked write is rejected exactly
\* in the pairs (x, (x+1) mod S), that is when the write cursor is one step
\* ahead of the read cursor.
C16_FullIsWriteOneAhead ==
    \A k \in 1..Len(hist) : IsWrite(hist[k]) =>
       (~hist[k].ok <=> hist[k].wh = (hist[k].rh + 1) % S)

\* C16 (named configurations), with the full pairs the code produces: the
\* buffer reads as empty exactly in the pairs (x, x) and holds nothing
\* unread there; a checked write is rejected exactly in the pairs
\* ((x+1) mod S, x), where the read cursor is one step ahead of the write
\* cursor, and S-1 elements are unread there; every other pair holds
\* between 1 and S-2 unread elements.
C16_NamedConfigurations ==
    /\ \A k \in 1..Len(hist) :
          /\ IsWrite(hist[k]) =>
                (~hist[k].ok <=> hist[k].rh = (hist[k].wh + 1) % S)
          /\ IsRead(hist[k]) =>
                (~hist[k].ok <=> hist[k].rh = hist[k].wh)
    /\ (read_head = write_head) <=> (Unread(hist) = 0)
    /\ (S >= 2) => (FullCursors(write_head, read_head) <=> Unread(hist) = S - 1)
    /\ (read_head # write_head /\ ~FullCursors(write_head, read_head)) =>
          (1 <= Unread(hist) /\ Unread(hist) <= S - 2)

\* C16 witness: size 3; after one accepted write the write cursor is one
\* step ahead of the read cursor and the next write is accepted all the
\* same; the write after that finds the read cursor one step ahead of the
\* write cursor and is rejected; a read on the drained buffer finds equal
\* cursors.
C16_Witness ==
    /\ S = 3
    /\ Len(hist) = 6
    /\ AcceptedWrite(hist[2]) /\ hist[2].rh = 0 /\ hist[2].wh = 1
    /\ IsWrite(hist[3]) /\ ~hist[3].ok /\ hist[3].rh = 0 /\ hist[3].wh = 2
    /\ SuccessfulRead(hist[4]) /\ SuccessfulRead(hist[5])
    /\ IsRead(hist[6]) /\ ~hist[6].ok /\ hist[6].rh = 2 /\ hist[6].wh = 2

\* ----------------------------------------------------------------- C19
\* the consumer has had a successful read
HasRead == Len(seen) > 0 \/ pcR = "c_seen"

\* the slot the most recent successful read returned a reference to
LastSlot == (read_head + S - 1) % S

\* the producer's step that stores into a slot
StoreStep == pcW = "w_store" /\ pcW' = "w_publish"

\* C19 (last-read slot protected): in the producer/consumer test, under
\* every interleaving of the threads' memory accesses, no store of the
\* producer goes to the slot the most recent successful read returned; the
\* reference the consumer holds is to that slot, and the value behind it
\* stays what it was for as long as the consumer holds it.
C19_LastReadSlotProtected ==
    [][/\ (HasRead /\ StoreStep) =>
             /\ write_head # LastSlot
             /\ data'[LastSlot] = data[LastSlot]
       /\ (pcR = "c_seen") => (r_ret = Some(LastSlot))
       /\ (pcR = "c_seen" /\ pcR' = "c_seen") =>
             /\ r_ret' = r_ret
             /\ data'[unwrap(r_ret)] = data[unwrap(r_ret)]]_vars

\* C19 witness: size 3; the consumer holds the reference to slot 1 while
\* the producer, a full lap on, has just stored 3 into slot 0 next to it.
C19_Witness ==
    /\ S = 3
    /\ pcR = "c_seen" /\ r_ret = Some(1) /\ read_head = 2
    /\ pcW = "w_publish" /\ write_head = 0 /\ i = 3
    /\ data = (0 :> 3 @@ 1 :> 1 @@ 2 :> 2)
    /\ seen = <<0>>

\* ----------------------------------------------------------------- C20
\* how many successful reads the consumer has made
ReadsDone == Len(seen) + (IF pcR = "c_seen" THEN 1 ELSE 0)

\* C20 (store before publish): in the producer/consumer test, under every
\* interleaving of the threads' memory accesses, every position the write
\* cursor has been advanced past and the consumer has not read yet holds
\* the integer written for it, and the slot behind the reference a
\* successful read returned holds the integer of its position: never the
\* default, never the integer of an earlier lap.  The write cursor moves
\* only after the slot it leaves has been stored, and a read takes its
\* reference only from a slot the write cursor has left.
C20_StoreBeforePublish ==
    /\ \A p \in ReadsDone..(i - 1) : data[p % S] = p
    /\ write_head = i % S
    /\ read_head = ReadsDone % S
    /\ ReadsDone <= i
    /\ (pcR = "c_seen") =>
          /\ is_some(r_ret)
          /\ unwrap(r_ret) = Len(seen) % S
          /\ data[unwrap(r_ret)] = Len(seen)
    /\ (pcW = "w_publish") => data[write_head] = i
    /\ \A k \in 1..Len(seen) : seen[k] = k - 1

\* C20 witness: size 3; the consumer holds the reference to position 4 in
\* slot 1, which held the default at first and 1 on the first lap and now
\* holds 4; the producer has stored 5 and not yet advanced the write
\* cursor.
C20_Witness ==
    /\ S = 3
    /\ pcR = "c_seen" /\ r_ret = Some(1) /\ Len(seen) = 4
    /\ data[1] = 4
    /\ pcW = "w_publish" /\ i = 5 /\ write_head = 2 /\ data[2] = 5

====
